---- MODULE Spec2Model ----
(***************************************************************************)
(* Watercooler Manager (watercooler_bt_gui.py): the MainWindow controller   *)
(* as a state machine.  Every handler is an @asyncSlot coroutine running on *)
(* one cooperative event loop: the code between two awaits is one atomic    *)
(* step, and a handler invoked by a signal starts its body only in a later  *)
(* loop iteration (the slot wrapper schedules a task).  The BLE transport   *)
(* (BleakClient) and the sensor backend are external: their outcomes are    *)
(* nondeterministic choices.                                                *)
(***************************************************************************)
EXTENDS Integers, Sequences, FiniteSets, TLC

\* ---------------------------------------------------------------- bounds
\* Handler tasks that may be pending or suspended on the event loop at once
\* (a task apply_all or connect_device awaits counts with its parent).
MaxTasks == 2

\* ------------------------------------------------------ program constants
None == 0 - 1
NoClient == 0
BleakClient == 1
DefaultFanDuty == 150
V7 == 2
V8 == 3
V11 == 0
V12 == 1
STATIC == 0
BREATH == 1
RAINBOW == 2
duties == <<80, 150, 255>>
\* The pump levels in the order of their codes.
volts_bycode == <<V11, V12, V7, V8>>
volts == <<V7, V8, V11, V12>>
DefaultPoints == <<<<20, 31>>, <<60, 58>>, <<100, 100>>>>

\* Readings the sensor backend may return for a slot (None: no reading).
CpuReadings == {None, 40, 72}
GpuReadings == {None, 55}
\* The colours of the colour combo, in the order of COLOR_MAP.
COLOR_MAP == <<<<255, 0, 0>>, <<0, 255, 0>>, <<0, 0, 255>>, <<255, 255, 255>>,
               <<255, 255, 0>>, <<0, 255, 255>>, <<255, 0, 255>>>>
\* Widget positions and selections a user intent reads: the fan slider, the
\* pump slider, and the <<mode, colour>> of the two RGB combos (the colours
\* Red and Green).
FanPositions == {0, 1, 2}
PumpPositions == {0, 1, 2, 3}
RgbSelections ==
    {STATIC, BREATH, RAINBOW} \X {COLOR_MAP[1], COLOR_MAP[2]}

Conns == 1..MaxTasks
\* The connected clients that may be left behind at a time.
MaxOrphans == 1
Ticks == 1..MaxTasks
Owners == {"user", "all"}

VARIABLES
    client,             \* self.client: NoClient or the stored BleakClient
    is_connected,       \* self.client.is_connected (FALSE without a client)
    curve_mode_active,  \* self.curve_mode_active (TRUE: Automatic)
    last_cpu_temp,      \* self.last_cpu_temp
    last_gpu_temp,      \* self.last_gpu_temp
    points,             \* self.curve_points, shared with the curve widget
    selected,           \* curve widget: index of the point being dragged, or None
    window,             \* the main window: "shown" or "hidden"
    page,               \* self.pages current index (0 manual, 1 curve)
    connect_btn,        \* connect button enabled
    apply_btns,         \* the four apply buttons enabled
    scanPc,             \* position of scan_and_populate
    connPc,             \* position of each connect_device task
    tickPc,             \* position of each update_temperatures task
    manPc,              \* position of apply_fan_and_pump, per owner of the task
    rgbPc,              \* position of the apply_rgb task of apply_all
    allPc,              \* position of apply_all
    curvePc,            \* position of apply_curve
    ready,              \* scheduled tasks whose body has not started, oldest first
    tickOrder,          \* the sampling ticks, in the order they were started
    overtaken,          \* sampling ticks that a tick started later has passed
    manualWon,          \* "switched": Manual was selected while Automatic was
                        \* active; "applied": apply-manual was invoked after that
    caught,             \* ticks that were sampling at that switch and still are
    baseline,           \* bring-up writes dispatched on the stored client
    orphans,            \* connected BleakClients that self.client no longer holds
    last                \* the step just taken and what it put on the link

vars == <<client, is_connected, curve_mode_active, last_cpu_temp, last_gpu_temp,
          points, selected, window, page, connect_btn, apply_btns, scanPc, connPc, tickPc, manPc,
          rgbPc, allPc, curvePc, ready, tickOrder, overtaken, manualWon, caught,
          baseline, orphans, last>>

curve_widget == <<points, selected>>
ctrl == <<curve_mode_active, last_cpu_temp, last_gpu_temp, curve_widget, page>>
temps == <<last_cpu_temp, last_gpu_temp, curve_widget>>
link == <<client, is_connected>>
gui == <<connect_btn, apply_btns, scanPc>>
ticks == <<tickPc, tickOrder, overtaken>>
intents == <<manPc, rgbPc, allPc, curvePc>>
scenario == <<manualWon, caught>>

\* ---------------------------------------------------------------- helpers
\* `self.client and self.client.is_connected`
Connected == client # NoClient /\ is_connected

NoPacket == <<>>

\* The step record: handler, step, packet handed to write_gatt_char (or
\* NoPacket), the controller and link state the step started from, the
\* sensor reading it consumed, the owner of the task, whether a tick
\* started later had already dispatched, whether the tick was sampling
\* while Manual was selected and applied, what the step read from its
\* widgets or event (arg, a tuple), and the value interpolate returned to it
\* (pct, a fraction <<numerator, denominator>>, or <<>>).
Step(op, at, sent, cpu) ==
    [op |-> op, at |-> at, sent |-> sent, conn |-> Connected,
     mode |-> curve_mode_active, cpu0 |-> last_cpu_temp, gpu0 |-> last_gpu_temp,
     cpu |-> cpu, gpu |-> None, who |-> "", late |-> FALSE, caught |-> FALSE,
     arg |-> <<>>, pct |-> <<>>]

By(h, rec) == [rec EXCEPT !.who = h]

\* The step read rec's inputs from arg.
Read(arg, rec) == [rec EXCEPT !.arg = arg]

\* The step got pct from interpolate.
Got(pct, rec) == [rec EXCEPT !.pct = pct]

\* A task suspended in write_gatt_char: a write dispatched on a connected
\* client may return or raise, one dispatched on a client that is not
\* connected can only raise.  A task whose last statement is the write has
\* nothing left to do when it returns or raises: dispatching it is its
\* last step.
Writing(cmd) == IF Connected THEN "w_" \o cmd ELSE "w_" \o cmd \o "_down"

Raised(pc, cmd, raised) ==
    /\ pc \in {"w_" \o cmd, "w_" \o cmd \o "_down"}
    /\ pc = "w_" \o cmd \o "_down" => raised

\* The loop runs scheduled callbacks in the order they were registered: a
\* task body starts when it is the oldest one scheduled, and the task of a
\* button pressed now starts after every task already scheduled.
Starts(t) == ready # <<>> /\ Head(ready) = t

\* Tasks on the loop.
Active ==
    Cardinality({c \in Conns : connPc[c] # "idle"})
    + Cardinality({k \in Ticks : tickPc[k] # "idle"})
    + Cardinality({h \in Owners : manPc[h] # "idle"})
    + (IF rgbPc # "idle" THEN 1 ELSE 0)
    + (IF curvePc # "idle" THEN 1 ELSE 0)

\* --------------------------------------------------------- packet codec
\* A fan packet whose enable byte is always set.
write_fan_mode_on(duty) == <<254, 27, 1, duty, 0, 0, 0, 239>>

write_fan_mode(duty) ==
    <<254, 27, IF duty # 0 THEN 1 ELSE 0, duty, 0, 0, 0, 239>>

write_pump_mode(voltage) == <<254, 28, 1, 100, voltage, 0, 0, 239>>

write_rgb_mode(mode, color) ==
    <<254, 30, 1, color[1], color[2], color[3], mode, 239>>

\* ---------------------------------------------------------- curve model
\* Tuple order of Python's sorted() on (temperature, duty) pairs.
PointLeq(a, b) == a[1] < b[1] \/ (a[1] = b[1] /\ a[2] <= b[2])

RECURSIVE Insert(_, _)
Insert(pt, s) ==
    IF s = <<>> THEN <<pt>>
    ELSE IF PointLeq(pt, Head(s)) THEN <<pt>> \o s
    ELSE <<Head(s)>> \o Insert(pt, Tail(s))

RECURSIVE sorted(_)
sorted(s) == IF s = <<>> THEN <<>> ELSE Insert(Head(s), sorted(Tail(s)))

\* The first segment of pts (sorted) that brackets temp, or 0.
RECURSIVE Bracket(_, _, _)
Bracket(pts, temp, i) ==
    IF i > Len(pts) - 1 THEN 0
    ELSE IF pts[i][1] <= temp /\ temp <= pts[i + 1][1] THEN i
    ELSE Bracket(pts, temp, i + 1)

\* An interpolate that clamps to the nearest end of the curve.
interpolate_nearest(curve, temp) ==
    LET pts == sorted(curve)
        i == Bracket(pts, temp, 1)
    IN  IF i = 0
        THEN IF temp < pts[1][1] THEN <<pts[1][2], 1>> ELSE <<pts[Len(pts)][2], 1>>
        ELSE <<pts[i][2] * (pts[i + 1][1] - pts[i][1])
                   + (pts[i + 1][2] - pts[i][2]) * (temp - pts[i][1]),
               pts[i + 1][1] - pts[i][1]>>

\* interpolate as an exact fraction <<numerator, denominator>>; a zero
\* denominator is the division the code cannot carry out.
interpolate(curve, temp) ==
    LET pts == sorted(curve)
        i == Bracket(pts, temp, 1)
    IN  IF i = 0 THEN <<pts[Len(pts)][2], 1>>
        ELSE LET t0 == pts[i][1]
                 p0 == pts[i][2]
                 t1 == pts[i + 1][1]
                 p1 == pts[i + 1][2]
             IN  <<p0 * (t1 - t0) + (p1 - p0) * (temp - t0), t1 - t0>>

Raises(pct) == pct[2] = 0

\* round(pct), halves upwards.
IntOf_round(pct) == (2 * pct[1] + pct[2]) \div (2 * pct[2])

\* int(pct): truncation of a value that is never negative.
IntOf(pct) == pct[1] \div pct[2]


\* ------------------------------------------------------------------ Init
\* MainWindow.__init__ followed by main(), which starts the first scan.
Init ==
    /\ client = NoClient
    /\ is_connected = FALSE
    /\ curve_mode_active = FALSE
    /\ last_cpu_temp = None
    /\ last_gpu_temp = None
    /\ points = DefaultPoints
    /\ selected = None
    /\ window = "shown"
    /\ page = 0
    /\ connect_btn = FALSE
    /\ apply_btns = FALSE
    /\ scanPc = "scanning"
    /\ connPc = [c \in Conns |-> "idle"]
    /\ tickPc = [k \in Ticks |-> "idle"]
    /\ manPc = [h \in Owners |-> "idle"]
    /\ rgbPc = "idle"
    /\ allPc = "idle"
    /\ curvePc = "idle"
    /\ ready = <<>>
    /\ tickOrder = <<>>
    /\ overtaken = {}
    /\ manualWon = ""
    /\ caught = {}
    /\ baseline = 0
    /\ orphans = 0
    /\ last = Step("main", "start", NoPacket, None)

\* ------------------------------------------------------------- discovery
\* scan_devices returned at least one matching device.
scan_found ==
    /\ scanPc = "scanning"
    /\ connect_btn' = TRUE
    /\ scanPc' = "done"
    /\ last' = Step("scan_and_populate", "found", NoPacket, None)
    /\ UNCHANGED <<window, orphans, ctrl, link, apply_btns, connPc, ticks, intents, ready, scenario,
                   baseline>>

\* scan_devices returned nothing: status text, then asyncio.sleep(5).
scan_empty ==
    /\ scanPc = "scanning"
    /\ scanPc' = "sleeping"
    /\ last' = Step("scan_and_populate", "empty", NoPacket, None)
    /\ UNCHANGED <<window, orphans, ctrl, link, connect_btn, apply_btns, connPc, ticks, intents, ready,
                   scenario, baseline>>

\* A retry that gives up: the sleep ends the coroutine.
scan_retry_once ==
    /\ scanPc = "sleeping"
    /\ scanPc' = "gave_up"
    /\ last' = Step("scan_and_populate", "retry", NoPacket, None)
    /\ UNCHANGED <<window, orphans, ctrl, link, connect_btn, apply_btns, connPc, ticks, intents, ready,
                   scenario, baseline>>

\* The sleep is over: scan_and_populate calls itself.
scan_retry ==
    /\ scanPc = "sleeping"
    /\ scanPc' = "scanning"
    /\ last' = Step("scan_and_populate", "retry", NoPacket, None)
    /\ UNCHANGED <<window, orphans, ctrl, link, connect_btn, apply_btns, connPc, ticks, intents, ready,
                   scenario, baseline>>

\* ------------------------------------------------------------ connection
\* The task slot the next connect request uses.
FreeConn(c) == connPc[c] = "idle" /\ \A d \in Conns : d < c => connPc[d] # "idle"

\* Connect pressed: a new BleakClient, then `await client.connect(...)`.
connect_device(c) ==
    /\ connect_btn
    /\ FreeConn(c)
    /\ Active < MaxTasks
    /\ connPc' = [connPc EXCEPT ![c] = "connecting"]
    /\ last' = Step("connect_device", "connecting", NoPacket, None)
    /\ UNCHANGED <<window, orphans, ctrl, link, gui, ticks, intents, ready, scenario, baseline>>

\* `self.client = client` drops the stored client without disconnecting it:
\* if its link was up, it stays up and nothing holds it any more.
Replaced == IF Connected THEN orphans + 1 ELSE orphans

\* connect returned and client.is_connected: the new client replaces the
\* stored one, the apply buttons are enabled and set_default_fan_and_pump is
\* scheduled and awaited.
connect_ok(c) ==
    /\ connPc[c] = "connecting"
    /\ orphans' = Replaced
    /\ orphans' <= MaxOrphans
    /\ client' = BleakClient
    /\ is_connected' = TRUE
    /\ apply_btns' = TRUE
    /\ connPc' = [connPc EXCEPT ![c] = "bringup_sched"]
    /\ ready' = Append(ready, <<"bringup", c>>)
    /\ baseline' = 0
    /\ last' = Step("connect_device", "connected", NoPacket, None)
    /\ UNCHANGED <<window, ctrl, connect_btn, scanPc, ticks, intents, scenario>>

\* connect raised or timed out (bare except: status text only).
connect_failed(c) ==
    /\ connPc[c] = "connecting"
    /\ connPc' = [connPc EXCEPT ![c] = "idle"]
    /\ last' = Step("connect_device", "failed", NoPacket, None)
    /\ UNCHANGED <<window, orphans, ctrl, link, gui, ticks, intents, ready, scenario, baseline>>

\* The link of the stored client is lost (the peer or the radio drops it).
link_lost ==
    /\ Connected
    /\ is_connected' = FALSE
    /\ last' = Step("transport", "link_lost", NoPacket, None)
    /\ UNCHANGED <<window, orphans, ctrl, client, gui, connPc, ticks, intents, ready, scenario, baseline>>

\* The link of a client that was replaced is lost.
orphan_lost ==
    /\ orphans > 0
    /\ orphans' = orphans - 1
    /\ last' = Step("transport", "orphan_lost", NoPacket, None)
    /\ UNCHANGED <<window, ctrl, link, gui, connPc, ticks, intents, ready, scenario, baseline>>

\* Progress of the bring-up sequence on the stored client: 1 after the
\* default fan duty, 2 after the default pump level that follows it.
BaselineAfter(cmd) ==
    IF cmd = "fan" THEN (IF baseline = 0 THEN 1 ELSE baseline)
    ELSE IF baseline >= 1 THEN 2 ELSE baseline

\* set_default_fan_and_pump starts: guard, then the default fan duty.
set_default_fan_and_pump(c) ==
    /\ Starts(<<"bringup", c>>)
    /\ ready' = Tail(ready)
    /\ IF ~Connected
       THEN /\ connPc' = [connPc EXCEPT ![c] = "idle"]
            /\ baseline' = baseline
            /\ last' = Step("set_default_fan_and_pump", "not_connected", NoPacket, None)
       ELSE /\ connPc' = [connPc EXCEPT ![c] = Writing("fan")]
            /\ baseline' = BaselineAfter("fan")
            /\ last' = Step("set_default_fan_and_pump", "fan",
                            write_fan_mode(DefaultFanDuty), None)
    /\ UNCHANGED <<window, orphans, ctrl, link, gui, ticks, intents, scenario>>

\* The default fan write returned: the pump write follows on self.client
\* and connect_device returns after it; or the write raised, which ends the
\* bring-up inside connect_device's bare except.
set_default_fan_done(c, raised) ==
    /\ Raised(connPc[c], "fan", raised)
    /\ connPc' = [connPc EXCEPT ![c] = "idle"]
    /\ IF raised
       THEN /\ baseline' = baseline
            /\ last' = Step("set_default_fan_and_pump", "fan_failed", NoPacket, None)
       ELSE /\ baseline' = BaselineAfter("pump")
            /\ last' = Step("set_default_fan_and_pump", "pump", write_pump_mode(V8), None)
    /\ UNCHANGED <<window, orphans, ctrl, link, gui, ticks, intents, ready, scenario>>

\* ------------------------------------------------------------------ mode
\* A mode change that leaves curve_mode_active alone.
ModeAfterPage_keep(index) == curve_mode_active

\* on_mode_changed: only index 0 touches curve_mode_active.
ModeAfterPage(index) == IF index = 0 THEN FALSE ELSE curve_mode_active

Sampling == {k \in Ticks : tickPc[k] = "sampling"}

\* The mode combo moved to another entry (currentIndexChanged).
on_mode_changed(index) ==
    /\ index # page
    /\ page' = index
    /\ curve_mode_active' = ModeAfterPage(index)
    /\ IF index = 0 /\ curve_mode_active
       THEN manualWon' = "switched" /\ caught' = Sampling
       ELSE UNCHANGED scenario
    /\ last' = Step("on_mode_changed", IF index = 0 THEN "manual" ELSE "curve",
                    NoPacket, None)
    /\ UNCHANGED <<window, orphans, temps, link, gui, connPc, ticks, intents, ready, baseline>>

\* ------------------------------------------------- automatic controller
\* A slot that takes whatever the sample carries.
Sticky_reset(old, new) == new

\* A slot keeps its last value unless the sample carries a reading for it.
Sticky(old, new) == IF new # None THEN new ELSE old

\* Guards that test the stored handle without asking it for its link.
TickSends_stale(cpuNow) == curve_mode_active /\ cpuNow # None /\ client # NoClient

\* Guards that follow the page shown instead of the mode flag.
TickSends_page(cpuNow) == page = 1 /\ cpuNow # None /\ Connected

\* The two guards a tick passes before it writes.
TickSends(cpuNow) == curve_mode_active /\ cpuNow # None /\ Connected

\* The tick slot the next timer timeout uses.
FreeTick(k) == tickPc[k] = "idle" /\ \A j \in Ticks : j < k => tickPc[j] # "idle"

\* The sampling ticks started before tick k.
Before(k) ==
    {tickOrder[i] : i \in {i \in 1..Len(tickOrder) :
        \E n \in 1..Len(tickOrder) : tickOrder[n] = k /\ i < n}}

Without(q, k) == SelectSeq(q, LAMBDA x : x # k)

\* temp_timer timeout: the task hands get_temperatures to the executor.
update_temperatures(k) ==
    /\ FreeTick(k)
    /\ Active < MaxTasks
    /\ tickPc' = [tickPc EXCEPT ![k] = "sampling"]
    /\ tickOrder' = Append(tickOrder, k)
    /\ last' = Step("update_temperatures", "sampling", NoPacket, None)
    /\ UNCHANGED <<window, orphans, ctrl, link, gui, connPc, overtaken, intents, ready, scenario,
                   baseline>>

\* The executor returned (cpu, gpu), or raised (None, None): sticky update,
\* guards, interpolation and the write, after which the task ends.
update_temperatures_sampled(k, cpu, gpu) ==
    /\ tickPc[k] = "sampling"
    /\ tickPc' = [tickPc EXCEPT ![k] = "idle"]
    /\ last_cpu_temp' = Sticky(last_cpu_temp, cpu)
    /\ last_gpu_temp' = Sticky(last_gpu_temp, gpu)
    /\ tickOrder' = Without(tickOrder, k)
    /\ caught' = caught \ {k}
    /\ LET cpuNow == Sticky(last_cpu_temp, cpu)
           step(at, sent) ==
               [Step("update_temperatures", at, sent, cpu)
                   EXCEPT !.gpu = gpu, !.late = k \in overtaken,
                          !.caught = (k \in caught /\ manualWon = "applied"),
                          !.pct = IF TickSends(cpuNow) /\ at = "fan"
                                  THEN interpolate(points, cpuNow) ELSE <<>>]
       IN  IF ~TickSends(cpuNow)
           THEN /\ overtaken' = overtaken \ {k}
                /\ last' = step("idle", NoPacket)
           ELSE IF Raises(interpolate(points, cpuNow))
           THEN /\ overtaken' = overtaken \ {k}
                /\ last' = step("raised", NoPacket)
           ELSE /\ overtaken' = (overtaken \cup Before(k)) \ {k}
                /\ last' = step("fan", write_fan_mode(IntOf(interpolate(points, cpuNow))))
    /\ UNCHANGED <<window, orphans, curve_mode_active, curve_widget, page, link, gui, connPc, intents, ready,
                   manualWon, baseline>>

\* ---------------------------------------------------------- user intents
\* apply_all resumes when the task it awaits ends: after apply_fan_and_pump
\* it calls apply_rgb, unless the awaited task raised; after apply_rgb it
\* returns.  The pair is <<allPc, rgbPc>>.
AllAfterManual(raised) ==
    IF raised THEN <<"idle", "idle">> ELSE <<"await_rgb", "sched">>

\* What the end of an apply_fan_and_pump task of owner h leaves behind.
ManualEnds(h, raised) ==
    /\ manPc' = [manPc EXCEPT ![h] = "idle"]
    /\ IF h = "all"
       THEN /\ allPc' = AllAfterManual(raised)[1]
            /\ rgbPc' = AllAfterManual(raised)[2]
            /\ ready' = IF AllAfterManual(raised)[2] = "sched"
                        THEN Append(ready, <<"rgb", 0>>) ELSE ready
       ELSE UNCHANGED <<allPc, rgbPc, ready>>

\* An apply_fan_and_pump that does not touch the mode.
ManualModeAfter_keep == curve_mode_active

\* The mode apply_fan_and_pump leaves once its guard has passed.
ManualModeAfter == FALSE

\* The button that starts an apply_fan_and_pump task for owner h is pressed
\* and its body starts: Apply for "user", Apply everything (apply_all, which
\* schedules the task and awaits it) for "all".
Pressed(h) ==
    /\ apply_btns /\ page = 0
    /\ ready = <<>>
    /\ Active < MaxTasks
    /\ manPc[h] = "idle"
    /\ h = "all" => allPc = "idle"

\* apply_fan_and_pump: guard, mode, then the fan write.
apply_fan_and_pump(h) ==
    /\ Pressed(h)
    /\ manualWon' = IF manualWon = "" THEN "" ELSE "applied"
    /\ IF ~Connected
       THEN /\ ManualEnds(h, FALSE)
            /\ curve_mode_active' = curve_mode_active
            /\ last' = By(h, Step("apply_fan_and_pump", "not_connected", NoPacket, None))
       ELSE \E pos \in FanPositions :
            /\ manPc' = [manPc EXCEPT ![h] = Writing("fan")]
            /\ allPc' = IF h = "all" THEN "await_manual" ELSE allPc
            /\ curve_mode_active' = ManualModeAfter
            /\ last' = Read(<<pos>>, By(h, Step("apply_fan_and_pump", "fan",
                                  write_fan_mode(duties[pos + 1]), None)))
            /\ UNCHANGED <<rgbPc, ready>>
    /\ UNCHANGED <<window, orphans, temps, page, link, gui, connPc, ticks, curvePc, caught, baseline>>

\* The fan write returned: the pump write follows on self.client; or it
\* raised, which ends the task.  Only apply_all waits for the pump write.
apply_fan_done(h, raised) ==
    /\ Raised(manPc[h], "fan", raised)
    /\ IF raised
       THEN /\ ManualEnds(h, TRUE)
            /\ last' = By(h, Step("apply_fan_and_pump", "fan_failed", NoPacket, None))
       ELSE \E pos \in PumpPositions :
            /\ manPc' = [manPc EXCEPT ![h] = IF h = "all" THEN Writing("pump") ELSE "idle"]
            /\ last' = Read(<<pos>>, By(h, Step("apply_fan_and_pump", "pump",
                                  write_pump_mode(volts[pos + 1]), None)))
            /\ UNCHANGED <<allPc, rgbPc, ready>>
    /\ UNCHANGED <<window, orphans, ctrl, link, gui, connPc, ticks, curvePc, scenario, baseline>>

\* The pump write of apply_all's apply_fan_and_pump returned or raised.
apply_pump_done(raised) ==
    /\ Raised(manPc["all"], "pump", raised)
    /\ ManualEnds("all", raised)
    /\ last' = By("all", Step("apply_fan_and_pump",
                              IF raised THEN "pump_failed" ELSE "done", NoPacket, None))
    /\ UNCHANGED <<window, orphans, ctrl, link, gui, connPc, ticks, curvePc, scenario, baseline>>

\* An apply_rgb that sends the selected colour in every mode.
RgbColor_selected(sel) == sel[2]

\* The colour bytes apply_rgb sends for a selection <<mode, colour>>.
RgbColor(sel) == IF sel[1] = RAINBOW THEN <<0, 0, 0>> ELSE sel[2]

\* An apply_rgb task of owner h starts: Apply RGB is pressed ("user"), or
\* apply_all has scheduled it ("all").
RgbStarts(h) ==
    IF h = "user" THEN apply_btns /\ page = 0 /\ ready = <<>>
    ELSE Starts(<<"rgb", 0>>)

\* apply_rgb: guard, then the RGB write; apply_all returns after it.
apply_rgb(h) ==
    /\ RgbStarts(h)
    /\ IF ~Connected
       THEN last' = By(h, Step("apply_rgb", "not_connected", NoPacket, None))
       ELSE \E sel \in RgbSelections :
            last' = Read(sel, By(h, Step("apply_rgb", "rgb",
                               write_rgb_mode(sel[1], RgbColor(sel)), None)))
    /\ rgbPc' = IF h = "all" THEN "idle" ELSE rgbPc
    /\ allPc' = IF h = "all" THEN "idle" ELSE allPc
    /\ ready' = IF h = "all" THEN Tail(ready) ELSE ready
    /\ UNCHANGED <<window, orphans, ctrl, link, gui, connPc, ticks, manPc, curvePc, scenario, baseline>>

\* An apply_curve that marks the mode only after a CPU reading arrived.
CurveModeAfter_late(cpu) == IF cpu = None THEN curve_mode_active ELSE TRUE

\* The mode apply_curve leaves once its guard has passed, whatever the
\* fresh CPU reading.
CurveModeAfter(cpu) == TRUE

\* Apply Fan Curve pressed on the curve page: the slot schedules the task,
\* whose body starts once the pending window events have been handled.
press_apply_curve ==
    /\ apply_btns /\ page = 1
    /\ curvePc = "idle"
    /\ Active < MaxTasks
    /\ curvePc' = "sched"
    /\ ready' = Append(ready, <<"curve", 0>>)
    /\ last' = By("user", Step("apply_curve", "pressed", NoPacket, None))
    /\ UNCHANGED <<window, orphans, ctrl, link, gui, connPc, ticks, manPc, rgbPc, allPc, scenario,
                   baseline>>

\* apply_curve: guard, mode, a synchronous get_temperatures() whose CPU
\* reading is cpu, then the fan write.
apply_curve(cpu) ==
    /\ Starts(<<"curve", 0>>)
    /\ ready' = Tail(ready)
    /\ curvePc' = "idle"
    /\ IF ~Connected
       THEN /\ UNCHANGED <<curve_mode_active, scenario>>
            /\ last' = By("user", Step("apply_curve", "not_connected", NoPacket, cpu))
       ELSE /\ curve_mode_active' = CurveModeAfter(cpu)
            /\ IF CurveModeAfter(cpu)
               THEN manualWon' = "" /\ caught' = {}
               ELSE UNCHANGED scenario
            /\ IF cpu = None
               THEN last' = By("user", Step("apply_curve", "no_cpu", NoPacket, cpu))
               ELSE IF Raises(interpolate(points, cpu))
               THEN last' = By("user", Step("apply_curve", "raised", NoPacket, cpu))
               ELSE last' = Got(interpolate(points, cpu),
                                By("user", Step("apply_curve", "fan",
                                   write_fan_mode(IntOf(interpolate(points, cpu))), cpu)))
    /\ UNCHANGED <<window, orphans, temps, page, link, gui, connPc, ticks, manPc, rgbPc, allPc, baseline>>

\* ------------------------------------------------------- specification
Next ==
    \/ scan_found
    \/ scan_empty
    \/ scan_retry
    \/ \E c \in Conns : connect_device(c)
    \/ \E c \in Conns : connect_ok(c)
    \/ \E c \in Conns : connect_failed(c)
    \/ orphan_lost
    \/ link_lost
    \/ \E c \in Conns : set_default_fan_and_pump(c)
    \/ \E c \in Conns, raised \in BOOLEAN : set_default_fan_done(c, raised)
    \/ \E index \in {0, 1} : on_mode_changed(index)
    \/ \E k \in Ticks : update_temperatures(k)
    \/ \E k \in Ticks, cpu \in CpuReadings, gpu \in GpuReadings :
          update_temperatures_sampled(k, cpu, gpu)
    \/ \E h \in Owners : apply_fan_and_pump(h)
    \/ \E h \in Owners, raised \in BOOLEAN : apply_fan_done(h, raised)
    \/ \E raised \in BOOLEAN : apply_pump_done(raised)
    \/ \E h \in Owners : apply_rgb(h)
    \/ press_apply_curve
    \/ \E cpu \in CpuReadings : apply_curve(cpu)

Spec == Init /\ [][Next]_vars

\* ------------------------------------------------------ the fan packet
\* The duties a byte can carry.
Duties == 0..255

\* write_fan_mode is about to be called with a duty.
CodecInit ==
    /\ client = NoClient
    /\ is_connected = FALSE
    /\ curve_mode_active = FALSE
    /\ last_cpu_temp = None
    /\ last_gpu_temp = None
    /\ points = DefaultPoints
    /\ selected = None
    /\ window = "shown"
    /\ page = 0
    /\ connect_btn = FALSE
    /\ apply_btns = FALSE
    /\ scanPc = "scanning"
    /\ connPc = [c \in Conns |-> "idle"]
    /\ tickPc = [k \in Ticks |-> "idle"]
    /\ manPc = [h \in Owners |-> "idle"]
    /\ rgbPc = "idle"
    /\ allPc = "idle"
    /\ curvePc = "idle"
    /\ ready = <<>>
    /\ tickOrder = <<>>
    /\ overtaken = {}
    /\ manualWon = ""
    /\ caught = {}
    /\ baseline = 0
    /\ orphans = 0
    /\ \E duty \in Duties :
          last = Read(<<duty>>, Step("write_fan_mode", "call", NoPacket, None))

\* write_fan_mode builds the packet for its duty.
call_write_fan_mode ==
    /\ last.op = "write_fan_mode" /\ last.at = "call"
    /\ last' = [last EXCEPT !.at = "packet", !.sent = write_fan_mode(last.arg[1])]
    /\ UNCHANGED <<window, orphans, ctrl, link, gui, connPc, ticks, intents, ready, scenario,
                   baseline>>

CodecSpec == CodecInit /\ [][call_write_fan_mode]_vars

\* ---------------------------------------------------------- the window
\* The window is closed: closeEvent ignores the event and hides the window.
closeEvent ==
    /\ window = "shown"
    /\ window' = "hidden"
    /\ last' = Step("closeEvent", "hidden", NoPacket, None)
    /\ UNCHANGED <<orphans, ctrl, link, gui, connPc, ticks, intents, ready, scenario, baseline>>

\* The tray icon is activated, or its Show entry chosen.
show_window ==
    /\ window = "hidden"
    /\ window' = "shown"
    /\ last' = Step("show_window", "shown", NoPacket, None)
    /\ UNCHANGED <<orphans, ctrl, link, gui, connPc, ticks, intents, ready, scenario, baseline>>

\* The program with its window closed to the tray and shown again.
TrayNext ==
    \/ closeEvent
    \/ show_window
    \/ Next

TraySpec == Init /\ [][TrayNext]_vars

\* The event loop runs the discovery coroutine: a scan that was started
\* returns (BleakScanner.discover ends after its scanning time) and a sleep
\* that was started ends.
LiveSpec ==
    /\ Init /\ [][Next]_vars
    /\ WF_vars(scan_found \/ scan_empty)
    /\ WF_vars(scan_retry)

\* ---------------------------------------------------------- curve widget
\* Size of the curve widget in pixels: self.width(), self.height().
width == 690
height == 250

\* Mouse positions of move events, in pixels: inside the plot, and beyond
\* its right and bottom edges at the pixels of 150 degrees and of -5 percent;
\* and temperatures the sensor backend may report while the curve is edited.
MouseXs == {365, 1080}
MouseYs == {135, 220}
CurveReadings == {10, 40, 72, 100, 150}

Min(a, b) == IF a <= b THEN a ELSE b
Max(a, b) == IF a >= b THEN a ELSE b

\* A conversion that trusts the event's position.
Clip_none(v, lo, hi) == v

\* min(max(v, lo), hi)
Clip(v, lo, hi) == Min(Max(v, lo), hi)

\* The point mouseMoveEvent stores for an event at pixel (x, y): the pixel
\* is clamped to the plot, converted to (t, p) as exact fractions over
\* (w - 50) and (h - 50), and each is clamped and truncated by int().
PointAt(x, y) ==
    LET w == width
        h == height
        cx == Clip(x, 40, w - 10)
        cy == Clip(y, 10, h - 40)
        t == <<20 * (w - 50) + (cx - 40) * (100 - 20), w - 50>>
        p == <<(h - 40 - cy) * 100, h - 50>>
    IN  <<IntOf(<<Clip(t[1], 20 * t[2], 100 * t[2]), t[2]>>),
          IntOf(<<Clip(p[1], 0, 100 * p[2]), p[2]>>)>>

\* The pixel paintEvent draws point pt at.
PixelOf(pt) ==
    <<IntOf(<<40 * (100 - 20) + (pt[1] - 20) * (width - 50), 100 - 20>>),
      IntOf(<<(height - 40) * 100 - pt[2] * (height - 50), 100>>)>>

Abs(v) == IF v < 0 THEN 0 - v ELSE v

\* mousePressEvent's test: point i (from 0) lies within 6 pixels of (x, y).
Hit(i, x, y) ==
    LET t == points[i + 1][1]
        p == points[i + 1][2]
    IN  /\ Abs(40 * (100 - 20) + (t - 20) * (width - 50) - x * (100 - 20)) <= 6 * (100 - 20)
        /\ Abs((height - 40) * 100 - p * (height - 50) - y * 100) <= 6 * 100

\* The mouse is pressed at (x, y): the first point hit becomes the selection.
mousePressEvent(x, y) ==
    /\ page = 1
    /\ LET hits == {i \in 0..(Len(points) - 1) : Hit(i, x, y)}
       IN  selected' = IF hits = {} THEN selected
                       ELSE CHOOSE i \in hits : \A j \in hits : i <= j
    /\ last' = Read(<<x, y>>, Step("mousePressEvent", "pressed", NoPacket, None))
    /\ UNCHANGED <<window, orphans, client, is_connected, curve_mode_active, last_cpu_temp, last_gpu_temp,
                   points, page, gui, connPc, ticks, intents, ready, scenario, baseline>>

\* The mouse moves to (x, y): the selected point, if any, is replaced.
mouseMoveEvent(x, y) ==
    /\ page = 1
    /\ IF selected = None
       THEN /\ points' = points
            /\ last' = Read(<<x, y>>, Step("mouseMoveEvent", "ignored", NoPacket, None))
       ELSE /\ points' = [points EXCEPT ![selected + 1] = PointAt(x, y)]
            /\ last' = Read(<<x, y>>, Step("mouseMoveEvent", "moved", NoPacket, None))
    /\ UNCHANGED <<window, orphans, client, is_connected, curve_mode_active, last_cpu_temp, last_gpu_temp,
                   selected, page, gui, connPc, ticks, intents, ready, scenario, baseline>>

\* The mouse button is released.
mouseReleaseEvent ==
    /\ page = 1
    /\ selected' = None
    /\ last' = Step("mouseReleaseEvent", "released", NoPacket, None)
    /\ UNCHANGED <<window, orphans, client, is_connected, curve_mode_active, last_cpu_temp, last_gpu_temp,
                   points, page, gui, connPc, ticks, intents, ready, scenario, baseline>>

\* The curve page of a connected session: the state Spec reaches by a scan
\* that finds the device, a connect, the two bring-up writes and the mode
\* combo moved to the curve entry.
CurveInit ==
    /\ client = BleakClient
    /\ is_connected = TRUE
    /\ curve_mode_active = FALSE
    /\ last_cpu_temp = None
    /\ last_gpu_temp = None
    /\ points = DefaultPoints
    /\ selected = None
    /\ window = "shown"
    /\ page = 1
    /\ connect_btn = TRUE
    /\ apply_btns = TRUE
    /\ scanPc = "done"
    /\ connPc = [c \in Conns |-> "idle"]
    /\ tickPc = [k \in Ticks |-> "idle"]
    /\ manPc = [h \in Owners |-> "idle"]
    /\ rgbPc = "idle"
    /\ allPc = "idle"
    /\ curvePc = "idle"
    /\ ready = <<>>
    /\ tickOrder = <<>>
    /\ overtaken = {}
    /\ manualWon = ""
    /\ caught = {}
    /\ baseline = 2
    /\ orphans = 0
    /\ last = Step("on_mode_changed", "curve", NoPacket, None)

\* The pixel at which point i (from 0) is drawn: where the user presses.
Drawn(i) == PixelOf(points[i + 1])

\* The curve is edited with the mouse while the controller polls (each
\* sample returning before the next timeout) and the user applies the curve.
CurveNext ==
    \/ \E i \in {0, 1, 2} : mousePressEvent(Drawn(i)[1], Drawn(i)[2])
    \/ \E x \in MouseXs, y \in MouseYs : mouseMoveEvent(x, y)
    \/ mouseReleaseEvent
    \/ press_apply_curve
    \/ \E cpu \in CurveReadings : apply_curve(cpu)
    \/ update_temperatures(1)
    \/ \E cpu \in CurveReadings : update_temperatures_sampled(1, cpu, None)

CurveSpec == CurveInit /\ [][CurveNext]_vars

\* ---------------------------------------------------------------- claims
UserOps == {"apply_fan_and_pump", "apply_rgb", "apply_curve"}

\* The step just taken is the body of apply_curve, run while connected with
\* a fresh read that carried no CPU value.
CurveRanWithoutCpu ==
    last.op = "apply_curve" /\ last.at # "pressed" /\ last.conn /\ last.cpu = None

\* The step just taken is the start of an apply_fan_and_pump body.
ManualRan == last.op = "apply_fan_and_pump" /\ last.at \in {"fan", "not_connected"}

\* The step just taken is a tick resuming with its sample.
TickRan == last.op = "update_temperatures" /\ last.at # "sampling"

\* C1 as stated: apply_curve run while connected with no CPU reading leaves
\* the mode as it was and writes nothing.
C1_NoCpuLeavesModeUnchanged ==
    CurveRanWithoutCpu => (curve_mode_active = last.mode /\ last.sent = NoPacket)

\* C1 amended: apply_curve run while connected with no CPU reading writes
\* nothing, and the mode is Automatic afterwards whatever it was before.
C1_NoCpuStillMarksAutomatic ==
    CurveRanWithoutCpu => (curve_mode_active /\ last.sent = NoPacket)

C1_Witness == CurveRanWithoutCpu /\ ~last.mode

\* C2: no packet is handed to the transport by a step that started while
\* the session was not connected.
C2_NoWriteUnlessConnected == last.sent # NoPacket => last.conn

\* C3: at most one tick is sampling at any time, and no tick writes after a
\* tick that was started later than it.
C3_TicksNeverOverlap == Cardinality(Sampling) <= 1 /\ ~last.late

C5_ApplyManualAlwaysManual == ManualRan => ~curve_mode_active

\* C5 amended: apply-manual invoked while connected leaves the mode Manual;
\* invoked while not connected it leaves the mode as it was.
C5_ApplyManualForcesManualWhenConnected ==
    ManualRan => (curve_mode_active = (IF last.conn THEN FALSE ELSE last.mode))

C5_Witness == ManualRan /\ last.conn /\ last.mode /\ ~curve_mode_active

\* C6: after a fan write has raised, the session is not connected.
C6_FanWriteFailureDisconnects == last.at = "fan_failed" => ~Connected

\* C7: when a write of apply_all's apply-manual has raised, apply_all goes on
\* to apply-rgb.
C7_ApplyAllGoesOnAfterFailure ==
    (last.who = "all" /\ last.at \in {"fan_failed", "pump_failed"}) => rgbPc = "sched"

\* C8: a tick writes only when the mode is Automatic, a CPU temperature is
\* known and the session is connected, and it changes neither the mode nor
\* the connection state.
C8_TickWritesOnlyWhenAllowed ==
    TickRan =>
        /\ last.sent # NoPacket =>
              (curve_mode_active /\ last_cpu_temp # None /\ Connected)
        /\ curve_mode_active = last.mode
        /\ Connected = last.conn

C8_Witness ==
    TickRan /\ last.mode /\ last_cpu_temp # None /\ ~last.conn /\ last.sent = NoPacket

\* C9: a sample changes a slot only where it carries a reading, each slot
\* on its own, and no step turns a known slot back to unknown.
C9_StickySlots ==
    /\ TickRan =>
          /\ last_cpu_temp = (IF last.cpu = None THEN last.cpu0 ELSE last.cpu)
          /\ last_gpu_temp = (IF last.gpu = None THEN last.gpu0 ELSE last.gpu)
    /\ last.cpu0 # None => last_cpu_temp # None
    /\ last.gpu0 # None => last_gpu_temp # None

C9_Witness ==
    /\ TickRan /\ last.cpu = None /\ last.gpu = 55
    /\ last.cpu0 = 40 /\ last_cpu_temp = 40 /\ last_gpu_temp = 55

\* C10: every packet of a user intent goes out after both bring-up writes
\* (fan 150, then pump 8V) have gone out on the stored session.
C10_BringUpPrecedesUserCommands ==
    (last.sent # NoPacket /\ last.op \in UserOps) => baseline = 2

\* C11: a tick that ends while the mode is Automatic (set by apply_curve), the
\* session is connected and a CPU temperature is held hands the fan packet of
\* the curve's duty at that temperature to the transport; and selecting
\* Manual clears the mode in that very step and leaves every task, pending
\* or suspended in a write, as it was.
C11_TickFollowsMode ==
    (TickRan /\ last.mode /\ last.conn /\ last_cpu_temp # None) =>
        last.sent = write_fan_mode(IntOf(interpolate(points, last_cpu_temp)))

C11_ManualSwitchStep ==
    (on_mode_changed(0)) =>
        /\ ~curve_mode_active'
        /\ UNCHANGED <<connPc, tickPc, manPc, rgbPc, allPc, curvePc, ready>>

Computed == last.op \in {"update_temperatures", "apply_curve"} /\ last.at = "fan"

\* The step just taken called interpolate, which failed.
Failed == last.op \in {"update_temperatures", "apply_curve"} /\ last.at = "raised"

\* The temperature that step passed to interpolate.
TempUsed == IF last.op = "apply_curve" THEN last.cpu ELSE last_cpu_temp

\* The points in the order of their temperatures (ties by duty).
ByTemperature ==
    LET perms == {f \in [1..3 -> 1..3] : \A i, j \in 1..3 : f[i] = f[j] => i = j}
    IN  CHOOSE q \in {[i \in 1..3 |-> points[f[i]]] : f \in perms} :
            \A i \in 1..2 : PointLeq(q[i], q[i + 1])

\* The segments of the ordered curve that bracket temp.
Brackets(temp) ==
    {i \in 1..2 : ByTemperature[i][1] <= temp /\ temp <= ByTemperature[i + 1][1]}

FirstBracket(temp) == CHOOSE i \in Brackets(temp) : \A j \in Brackets(temp) : i <= j

\* The fraction v is the linear interpolation at temp over the first
\* bracketing segment, or the last point's duty when none brackets temp.
ExactAt(temp, v) ==
    IF Brackets(temp) = {} THEN v[1] = ByTemperature[3][2] * v[2]
    ELSE LET t0 == ByTemperature[FirstBracket(temp)][1]
             p0 == ByTemperature[FirstBracket(temp)][2]
             t1 == ByTemperature[FirstBracket(temp) + 1][1]
             p1 == ByTemperature[FirstBracket(temp) + 1][2]
         IN  /\ t1 # t0
             /\ v[1] * (t1 - t0) = (p0 * (t1 - t0) + (p1 - p0) * (temp - t0)) * v[2]

\* C12 as stated: the duty byte a tick or apply_curve writes is the
\* interpolated value rounded to the nearest integer.
C12_DutyIsRounded ==
    Computed =>
        2 * Abs(last.sent[4] * last.pct[2] - last.pct[1]) <= last.pct[2]

\* C12 amended: the duty byte a tick or apply_curve writes is the
\* interpolated value truncated, int(pct): the largest integer not above it.
C12_DutyIsTruncated ==
    Computed =>
        /\ last.sent = write_fan_mode(last.sent[4])
        /\ last.sent[4] * last.pct[2] <= last.pct[1]
        /\ last.pct[1] < (last.sent[4] + 1) * last.pct[2]

C12_Witness ==
    /\ Computed /\ last.op = "update_temperatures"
    /\ 2 * (last.pct[1] % last.pct[2]) > last.pct[2]
    /\ points # DefaultPoints

\* C13 as stated: interpolate returns the exact linear interpolation over
\* the first bracketing segment, the last sorted point's duty when there is
\* none, and on the default curve 44.75 at 40, 100 at 100, 150 and 10.
C13_InterpolateAsStated ==
    /\ ~Failed
    /\ Computed =>
          /\ ExactAt(TempUsed, last.pct)
          /\ points = DefaultPoints =>
                /\ TempUsed = 40 => 4 * last.pct[1] = 179 * last.pct[2]
                /\ TempUsed \in {10, 100, 150} => last.pct[1] = 100 * last.pct[2]

\* C13 amended: interpolate returns the exact linear interpolation over the
\* first bracketing segment when that segment has t0 < t1 and fails when it
\* has t0 = t1; it returns the last sorted point's duty when no segment
\* brackets the temperature; on the default curve 44.5 at 40, 100 at 100,
\* 150 and 10.
C13_InterpolateExact ==
    /\ Failed =>
          /\ Brackets(TempUsed) # {}
          /\ ByTemperature[FirstBracket(TempUsed)][1]
                = ByTemperature[FirstBracket(TempUsed) + 1][1]
    /\ Computed =>
          /\ ExactAt(TempUsed, last.pct)
          /\ points = DefaultPoints =>
                /\ TempUsed = 40 => 2 * last.pct[1] = 89 * last.pct[2]
                /\ TempUsed \in {10, 100, 150} => last.pct[1] = 100 * last.pct[2]

C13_Witness ==
    /\ Computed /\ points = DefaultPoints /\ TempUsed = 10
    /\ last.pct[1] = 100 * last.pct[2]

\* C14: every control point keeps an integer temperature in [20,100] and an
\* integer duty in [0,100]; a move event changes the selected point only,
\* and stores temperature 100 for a pixel right of the plot (above 100
\* degrees) and duty 0 for a pixel below it (under 0 percent).
C14_PointsInRange ==
    /\ Len(points) = 3
    /\ \A i \in 1..3 : points[i][1] \in 20..100 /\ points[i][2] \in 0..100

C14_MoveStep ==
    \A x \in MouseXs, y \in MouseYs :
        mouseMoveEvent(x, y) =>
            /\ \A j \in 1..3 : j # selected + 1 => points'[j] = points[j]
            /\ (selected # None /\ x > width - 10) => points'[selected + 1][1] = 100
            /\ (selected # None /\ y > height - 40) => points'[selected + 1][2] = 0

C14_EditsStayInRange == []C14_PointsInRange /\ [][C14_MoveStep]_vars

C14_Witness ==
    /\ last.op = "mouseMoveEvent" /\ last.at = "moved" /\ last.arg = <<1080, 220>>
    /\ selected = 1 /\ points = <<<<20, 31>>, <<100, 0>>, <<100, 100>>>>

\* C20: on every curve the edits reach and for every temperature,
\* interpolate returns a value, and the value lies between the smallest and
\* the largest duty of the curve.
C20_InterpolateNeverFails ==
    /\ ~Failed
    /\ Computed =>
          /\ \E i \in 1..3 : points[i][2] * last.pct[2] <= last.pct[1]
          /\ \E i \in 1..3 : last.pct[1] <= points[i][2] * last.pct[2]

\* ----------------------------------------------- claims about discovery
\* C15: an empty scan is followed by the sleep and the sleep by another
\* scan, with no count of the retries; a scan that finds a device presents
\* the candidates (the connect button is enabled) and no scan follows it;
\* and if from some point on no scan comes back empty, the candidates are
\* eventually presented.
C15_PresentedIffFound == connect_btn <=> scanPc = "done"

C15_ScanStep ==
    /\ scanPc = "scanning" => scanPc' \in {"scanning", "sleeping", "done"}
    /\ scanPc = "sleeping" => scanPc' \in {"sleeping", "scanning"}
    /\ scanPc = "done" => scanPc' = "done"
    /\ scan_empty => scanPc' = "sleeping"
    /\ scan_found => scanPc' = "done"

C16_CloseCancelsDiscovery ==
    window = "hidden" => ~(last.op = "scan_and_populate" /\ last.at = "retry")

\* ------------------------------------------------- claims about packets
\* C17: for every duty d in [0,255] the fan frame is the 8 bytes
\* [0xFE, 0x1B, e, d, 0, 0, 0, 0xEF], e being 0x01 for d # 0 and 0x00 for 0.
C17_FanFrame ==
    (last.op = "write_fan_mode" /\ last.at = "packet") =>
        /\ Len(last.sent) = 8
        /\ last.sent[1] = 254 /\ last.sent[2] = 27
        /\ last.arg[1] = 0 => last.sent[3] = 0
        /\ last.arg[1] # 0 => last.sent[3] = 1
        /\ last.sent[4] = last.arg[1]
        /\ last.sent[5] = 0 /\ last.sent[6] = 0 /\ last.sent[7] = 0
        /\ last.sent[8] = 239

C17_Witness ==
    /\ last.op = "write_fan_mode" /\ last.at = "packet"
    /\ last.arg = <<0>> /\ last.sent[3] = 0

\* C18: the pump frame apply_fan_and_pump writes for slider position 0, 1,
\* 2, 3 is [0xFE, 0x1C, 0x01, 100, code, 0, 0, 0xEF] with the code of 7V
\* (0x02), 8V (0x03), 11V (0x00), 12V (0x01) in that order, and the bring-up
\* writes the frame of 8V.
PumpCode(pos) ==
    CASE pos = 0 -> 2
      [] pos = 1 -> 3
      [] pos = 2 -> 0
      [] pos = 3 -> 1

C18_PumpFrames ==
    /\ (last.op = "apply_fan_and_pump" /\ last.at = "pump") =>
          last.sent = <<254, 28, 1, 100, PumpCode(last.arg[1]), 0, 0, 239>>
    /\ (last.op = "set_default_fan_and_pump" /\ last.at = "pump") =>
          last.sent = <<254, 28, 1, 100, 3, 0, 0, 239>>

C18_Witness ==
    /\ last.op = "apply_fan_and_pump" /\ last.at = "pump"
    /\ last.arg = <<2>> /\ last.sent[5] = 0

\* C19: the frame apply_rgb writes is [0xFE, 0x1E, 0x01, r, g, b, code, 0xEF]
\* with code 0x00 for Static, 0x01 for Breathing, 0x02 for Rainbow; r, g, b
\* are zero in Rainbow mode whatever colour is selected, and the selected
\* colour's bytes in the other two modes.
C19_RgbFrames ==
    (last.op = "apply_rgb" /\ last.at = "rgb") =>
        LET mode == last.arg[1]
            color == last.arg[2]
        IN  /\ Len(last.sent) = 8
            /\ last.sent[1] = 254 /\ last.sent[2] = 30 /\ last.sent[3] = 1
            /\ last.sent[8] = 239
            /\ mode = STATIC => last.sent[7] = 0
            /\ mode = BREATH => last.sent[7] = 1
            /\ mode = RAINBOW => last.sent[7] = 2
            /\ <<last.sent[4], last.sent[5], last.sent[6]>>
                  = (IF last.sent[7] = 2 THEN <<0, 0, 0>> ELSE color)

C19_Witness ==
    /\ last.op = "apply_rgb" /\ last.at = "rgb"
    /\ last.arg = <<RAINBOW, <<0, 255, 0>>>>
    /\ last.sent = <<254, 30, 1, 0, 0, 0, 2, 239>>

\* ------------------------------------------------ claims about sessions
\* The links that are up: the stored client's, and those of the clients that
\* were replaced.
OpenLinks == (IF Connected THEN 1 ELSE 0) + orphans

\* C21: at most one link is up at any time, and it is the stored client's:
\* no connected client is left behind by a later connect request.
C21_AtMostOneSession == OpenLinks <= 1 /\ orphans = 0

====
